---- MODULE Spec2Model ----
(***************************************************************************)
(* The item-generation state machine of agent_store/item_creation_agent:   *)
(* prepare_context -> generate -> [tools] -> validate -> retry / create.   *)
(*                                                                         *)
(* Every node is one action, taken together with the routing function the  *)
(* graph attaches to it.  The mapping a node returns is the state handed   *)
(* to the next node; the tools node appends its results to the transcript. *)
(* The language model and the tools are opaque: a model call is a          *)
(* nondeterministic choice of a response (or of a failure).                *)
(*                                                                         *)
(* Around the machine, the Main Orchestrator of agent_store/               *)
(* main_orchestrator and the CRUD orchestrator of agent_store/             *)
(* item_crud_orchestrator: one request is collect_interruoted_message ->   *)
(* flow_resume -> flow_picker -> item_crud_orchestrator -> speaker_selector*)
(* -> item_creater / item_updater.  Spec is the machine called on its own  *)
(* (execute, then resume after a suspension); MainSpec is a sequence of    *)
(* requests to the Main Orchestrator.                                      *)
(***************************************************************************)
EXTENDS Integers, Sequences, FiniteSets, TLC

VARIABLES
    pc,                    \* node about to run, or "__end__" / "suspended" / "failed"
    messages,              \* state["messages"]
    field_list,            \* state["field_list"]
    field_values_dict,     \* state["field_values_dict"]
    generated_code,        \* state["generated_code"]
    validation_errors,     \* state["validation_errors"]
    retry_count,           \* state["retry_count"]
    tool_iteration_count,  \* state["tool_iteration_count"]
    retry_from_scratch,    \* self.retry_from_scratch
    store,                 \* state["store"], the side channel
    nonjson_run,           \* history: number of model responses so far when each of
                           \* them was non-JSON text without tool calls, else -1
    call,                  \* entry point of the attempt in progress: "execute" or "resume"
    model_call,            \* history: "returned" / "raised" when the step just taken
                           \* was a generate visit, else "none"
    orch,                  \* Main / CRUD orchestrator node about to run, "__end__" or
                           \* "failed"; "direct" when the machine is called on its own
    requests,              \* number of requests made to the Main Orchestrator
    conv,                  \* conversation the request in progress belongs to
    owner,                 \* history: conversation whose request started the attempt
                           \* that the thread holds, "none" before the first one
    self_interrupted_message,  \* MainOrchestrator.interrupted_message (<<>> is None)
    self_subgraph_id,      \* MainOrchestrator.subgraph_id
    classification,        \* history: message_type the classifier gave in this
                           \* request, "none" when it was not called
    field_ids,             \* argument of the latest get_field_details call
    results                \* what that call returned

vars == <<pc, messages, field_list, field_values_dict, generated_code,
          validation_errors, retry_count, tool_iteration_count,
          retry_from_scratch, store, nonjson_run, call, model_call, orch, requests,
          conv, owner, self_interrupted_message, self_subgraph_id, classification,
          field_ids, results>>

\* the latest tool call
tool_vars == <<field_ids, results>>

\* the state of the two orchestrators
orch_vars == <<orch, requests, conv, owner, self_interrupted_message, self_subgraph_id,
               classification>>

----------------------------------------------------------------------------
(* Constructor defaults                                                    *)

max_retries == 3

max_tool_iterations == 5

----------------------------------------------------------------------------
(* Python values that a payload can parse to, and that field_values_dict   *)
(* can hold.  A dict is a total function on FieldIds with Absent marking a *)
(* key that is not present.                                                *)

FieldIds == {"Summary", "Start_Date"}

Values == {"v1", "v2"}

Absent == "absent"

NoKeys == [f \in FieldIds |-> Absent]

None == [kind |-> "none", map |-> NoKeys, items |-> {}]

PyDict(m) == [kind |-> "dict", map |-> m, items |-> {}]

PyList(s) == [kind |-> "list", map |-> NoKeys, items |-> s]

PyScalar == [kind |-> "scalar", map |-> NoKeys, items |-> {}]

NotJson == [kind |-> "notjson", map |-> NoKeys, items |-> {}]

Keys(v) == {f \in FieldIds : v.map[f] # Absent}

\* dict.update: the new mapping's entries overwrite, the others are kept
DictUpdate(old, new) ==
    PyDict([f \in FieldIds |-> IF new.map[f] # Absent THEN new.map[f] ELSE old.map[f]])

\* `x in v` raises TypeError unless v is a container
InRaises(v) == v.kind \notin {"dict", "list"}

PyIn(x, v) ==
    CASE v.kind = "dict" -> x \in Keys(v)
      [] v.kind = "list" -> x \in v.items
      [] OTHER -> FALSE

----------------------------------------------------------------------------
(* Text of a model response, as a sequence of tokens: a code fence, the    *)
(* word python, white space, or a body of text with the value it denotes.  *)

Fence == [tok |-> "fence", val |-> None]

Python == [tok |-> "python", val |-> None]

Ws == [tok |-> "ws", val |-> None]

Text(v) == [tok |-> "text", val |-> v]

NoCode == <<>>

Strip(code) ==
    LET idx == {i \in 1..Len(code) : code[i].tok # "ws"}
    IN  IF idx = {} THEN <<>>
        ELSE LET lo == CHOOSE i \in idx : \A j \in idx : i <= j
                 hi == CHOOSE i \in idx : \A j \in idx : j <= i
             IN  SubSeq(code, lo, hi)

\* the closing fence left in place
_clean_code_open_only(code) ==
    LET c0 == Strip(code)
    IN  IF Len(c0) >= 2 /\ c0[1].tok = "fence" /\ c0[2].tok = "python"
            THEN Strip(SubSeq(c0, 3, Len(c0)))
        ELSE IF Len(c0) >= 1 /\ c0[1].tok = "fence"
            THEN Strip(SubSeq(c0, 2, Len(c0)))
        ELSE c0

_clean_code(code) ==
    LET c0 == Strip(code)
        c1 == IF Len(c0) >= 2 /\ c0[1].tok = "fence" /\ c0[2].tok = "python"
                  THEN Strip(SubSeq(c0, 3, Len(c0)))
              ELSE IF Len(c0) >= 1 /\ c0[1].tok = "fence"
                  THEN Strip(SubSeq(c0, 2, Len(c0)))
              ELSE c0
    IN  IF Len(c1) >= 1 /\ c1[Len(c1)].tok = "fence"
            THEN Strip(SubSeq(c1, 1, Len(c1) - 1))
        ELSE c1

\* json.loads: white space around the document is ignored; anything that is
\* not exactly one JSON document raises JSONDecodeError
json_loads(code) ==
    LET c == Strip(code)
    IN  IF Len(c) = 1 /\ c[1].tok = "text" /\ c[1].val.kind # "notjson"
            THEN [ok |-> TRUE, value |-> c[1].val]
        ELSE [ok |-> FALSE, value |-> None]

----------------------------------------------------------------------------
(* Messages of the transcript                                              *)

SystemMessage == [type |-> "system", tool_calls |-> FALSE, content |-> "system_prompt"]

HumanMessage(c) == [type |-> "human", tool_calls |-> FALSE, content |-> c]

AIMessage(tc) == [type |-> "ai", tool_calls |-> tc, content |-> "response"]

ToolMessage == [type |-> "tool", tool_calls |-> FALSE, content |-> "tool_result"]

NO_CODE_ERROR == "No code generated"

GENERATION_ERROR == "Generation error"

NoRecord == [interrupted_message |-> <<>>, subgraph_id |-> "none", present |-> FALSE]

----------------------------------------------------------------------------
(* Inputs: the catalogs and the model's responses                          *)

Catalogs ==
    {<<[Id |-> "Summary", Required |-> r1], [Id |-> "Start_Date", Required |-> r2]>> :
        r1 \in BOOLEAN, r2 \in BOOLEAN}

DictBodies == {PyDict(m) : m \in [FieldIds -> Values \cup {Absent}]}

ListBodies == {PyList(s) : s \in SUBSET FieldIds}

Bodies == DictBodies \cup ListBodies \cup {PyScalar, NotJson}

\* an unfenced text for every body, and fenced texts for two of them
FencedBodies == {NotJson, PyDict([f \in FieldIds |-> "v1"])}

Contents ==
    {<<Text(b)>> : b \in Bodies}
        \cup {<<Fence, Python, Ws, Text(b), Ws, Fence>> : b \in FencedBodies}
        \cup {<<Fence, Ws, Text(b), Ws, Fence>> : b \in FencedBodies}

\* a response that requests tool calls carries no text, or one of two texts
ToolCallContents == {NoCode} \cup {<<Text(b)>> : b \in FencedBodies}

\* response.content is either empty or one of Contents
Responses ==
    [tool_calls : {FALSE}, content : Contents \cup {NoCode}]
        \cup [tool_calls : {TRUE}, content : ToolCallContents]

\* the responses drawn when the machine runs under the orchestrators: a tool
\* request without text, no text, text that is not JSON, or a mapping
OrchestratedResponses ==
    [tool_calls : {FALSE},
     content : {NoCode, <<Text(NotJson)>>}
                   \cup {<<Text(PyDict(m))>> : m \in [FieldIds -> {"v1", Absent}]}]
        \cup [tool_calls : {TRUE}, content : {NoCode}]

IsNonJsonText(r) ==
    /\ ~r.tool_calls
    /\ r.content # NoCode
    /\ ~json_loads(_clean_code(r.content)).ok

----------------------------------------------------------------------------
Init ==
    /\ pc = "prepare_context"
    /\ messages = <<HumanMessage("query")>>
    /\ field_list \in Catalogs
    /\ field_values_dict = None
    /\ generated_code = NoCode
    /\ validation_errors = <<>>
    /\ retry_count = 0
    /\ tool_iteration_count = 0
    /\ retry_from_scratch = FALSE
    /\ store = NoRecord
    /\ nonjson_run = 0
    /\ call = "execute"
    /\ model_call = "none"
    /\ orch = "direct"
    /\ requests = 0
    /\ conv = "none"
    /\ owner = "none"
    /\ self_interrupted_message = <<>>
    /\ self_subgraph_id = "none"
    /\ classification = "none"
    /\ field_ids = <<>>
    /\ results = <<>>

----------------------------------------------------------------------------
(* Routing functions                                                       *)

\* the cap compared one too late
route_after_generation_late(msgs, code, count) ==
    IF Len(msgs) > 0 /\ msgs[Len(msgs)].tool_calls
        THEN IF count > max_tool_iterations + 1 THEN "retry" ELSE "tools"
    ELSE IF code # NoCode THEN "validate"
    ELSE "retry"

\* the cap not checked at all
route_after_generation_uncapped(msgs, code, count) ==
    IF Len(msgs) > 0 /\ msgs[Len(msgs)].tool_calls THEN "tools"
    ELSE IF code # NoCode THEN "validate"
    ELSE "retry"

\* text looked at before the tool calls
route_after_generation_text_first(msgs, code, count) ==
    IF code # NoCode THEN "validate"
    ELSE IF Len(msgs) > 0 /\ msgs[Len(msgs)].tool_calls
        THEN IF count > max_tool_iterations THEN "retry" ELSE "tools"
    ELSE "retry"

route_after_generation(msgs, code, count) ==
    IF Len(msgs) > 0 /\ msgs[Len(msgs)].tool_calls
        THEN IF count > max_tool_iterations THEN "retry" ELSE "tools"
    ELSE IF code # NoCode THEN "validate"
    ELSE "retry"

\* a resumed visit sent straight back to PREPARE_CONTEXT
route_after_validation_flag_first(errors, flag) ==
    IF flag THEN "prepare_context"
    ELSE IF errors = <<>> THEN "create" ELSE "retry"

route_after_validation(errors, flag) ==
    IF errors = <<>> /\ ~flag THEN "create" ELSE "retry"

\* >= for >
route_after_retry_early(count) ==
    IF count >= max_retries THEN "__end__" ELSE "prepare_context"

\* one retry too many
route_after_retry_late(count) ==
    IF count > max_retries + 1 THEN "__end__" ELSE "prepare_context"

route_after_retry(count) ==
    IF count > max_retries THEN "__end__" ELSE "prepare_context"

----------------------------------------------------------------------------
(* Nodes                                                                   *)

\* the system message put first whatever the transcript starts with
prepare_context_always(msgs) == <<SystemMessage>> \o msgs

\* lines 96-106: the system message is put first unless one is there already
prepare_context(msgs) ==
    IF msgs = <<>> \/ msgs[1].type # "system" THEN <<SystemMessage>> \o msgs ELSE msgs

_prepare_context_node ==
    /\ pc = "prepare_context"
    /\ messages' = prepare_context(messages)
    /\ pc' = "generate"
    /\ model_call' = "none"
    /\ UNCHANGED tool_vars
    /\ UNCHANGED <<field_list, field_values_dict, generated_code, validation_errors,
                   retry_count, tool_iteration_count, retry_from_scratch, store,
                   nonjson_run, call, orch_vars>>

\* every response counted as a tool round
GenerateReturnsCountsAll(response) ==
    LET updated_messages == Append(messages, AIMessage(response.tool_calls))
        count == tool_iteration_count + 1
    IN  /\ messages' = updated_messages
        /\ generated_code' = response.content
        /\ tool_iteration_count' = count
        /\ nonjson_run' = IF nonjson_run >= 0 /\ IsNonJsonText(response)
                              THEN nonjson_run + 1 ELSE -1
        /\ model_call' = "returned"
        /\ UNCHANGED tool_vars
        /\ pc' = route_after_generation(updated_messages, response.content, count)
        /\ UNCHANGED <<field_list, field_values_dict, validation_errors, retry_count,
                       retry_from_scratch, store>>

\* llm_with_tools.invoke returned `response`
GenerateReturns(response) ==
    LET updated_messages == Append(messages, AIMessage(response.tool_calls))
        count == IF response.tool_calls THEN tool_iteration_count + 1
                 ELSE tool_iteration_count
    IN  /\ messages' = updated_messages
        /\ generated_code' = response.content
        /\ tool_iteration_count' = count
        /\ nonjson_run' = IF nonjson_run >= 0 /\ IsNonJsonText(response)
                              THEN nonjson_run + 1 ELSE -1
        /\ model_call' = "returned"
        /\ UNCHANGED tool_vars
        /\ pc' = route_after_generation(updated_messages, response.content, count)
        /\ UNCHANGED <<field_list, field_values_dict, validation_errors, retry_count,
                       retry_from_scratch, store>>

\* the failed call counted as a tool round
GenerateRaisesCounted ==
    /\ validation_errors' = <<GENERATION_ERROR>>
    /\ nonjson_run' = -1
    /\ model_call' = "raised"
    /\ UNCHANGED tool_vars
    /\ tool_iteration_count' = tool_iteration_count + 1
    /\ pc' = route_after_generation(messages, generated_code, tool_iteration_count + 1)
    /\ UNCHANGED <<messages, field_list, field_values_dict, generated_code, retry_count,
                   retry_from_scratch, store>>

\* llm_with_tools.invoke raised
GenerateRaises ==
    /\ validation_errors' = <<GENERATION_ERROR>>
    /\ nonjson_run' = -1
    /\ model_call' = "raised"
    /\ UNCHANGED tool_vars
    /\ pc' = route_after_generation(messages, generated_code, tool_iteration_count)
    /\ UNCHANGED <<messages, field_list, field_values_dict, generated_code, retry_count,
                   tool_iteration_count, retry_from_scratch, store>>

_generate_node ==
    /\ pc = "generate"
    /\ \/ \E response \in IF orch = "direct" THEN Responses ELSE OrchestratedResponses :
              GenerateReturns(response)
       \/ GenerateRaises
    /\ UNCHANGED <<call, orch_vars>>

\* ToolNode: the results of the requested calls are appended, then back to generate
tools_node ==
    /\ pc = "tools"
    /\ messages' = Append(messages, ToolMessage)
    /\ pc' = "generate"
    /\ model_call' = "none"
    /\ UNCHANGED tool_vars
    /\ UNCHANGED <<field_list, field_values_dict, generated_code, validation_errors,
                   retry_count, tool_iteration_count, retry_from_scratch, store,
                   nonjson_run, call, orch_vars>>

----------------------------------------------------------------------------
(* validate                                                                *)

\* lines 162-164: a parsed dict is merged into the stored mapping when there
\* is one; anything else is taken as it is
field_value_map(parsed, stored) ==
    IF parsed.kind = "dict" /\ stored # None THEN DictUpdate(stored, parsed) ELSE parsed

\* state[FIELD_VALUES_DICT].update(...) on a value that is not a dict
UpdateRaises(parsed, stored) ==
    parsed.kind = "dict" /\ stored # None /\ stored.kind # "dict"

\* the Required flag not looked at
missed_required_field_list_any(fields, value) ==
    LET Missed(f) == ~PyIn(f.Id, value)
        missed == SelectSeq(fields, Missed)
    IN  [i \in 1..Len(missed) |-> missed[i].Id]

\* lines 167-170: ids of the required fields not in the mapping, in catalog order
missed_required_field_list(fields, value) ==
    LET Missed(f) == f.Required /\ ~PyIn(f.Id, value)
        missed == SelectSeq(fields, Missed)
    IN  [i \in 1..Len(missed) |-> missed[i].Id]

\* `field[ID] not in field_value_map` is evaluated for the required fields only
ScanRaises(fields, value) ==
    InRaises(value) /\ \E i \in 1..Len(fields) : fields[i].Required

\* an origin the Main Orchestrator has no specialist for
SuspendRecordMisnamed(missed) ==
    [interrupted_message |-> missed, subgraph_id |-> "item_creator_agent", present |-> TRUE]

SuspendRecord(missed) ==
    [interrupted_message |-> missed, subgraph_id |-> "item_creater_agent", present |-> TRUE]

\* an exception leaves the node: execute re-raises it as ValueError
NodeRaises ==
    /\ pc' = "failed"
    /\ UNCHANGED <<messages, field_list, field_values_dict, generated_code,
                   validation_errors, retry_count, tool_iteration_count,
                   retry_from_scratch, store, nonjson_run>>

\* lines 155-156, 188
ValidateNoCode ==
    /\ validation_errors' = <<NO_CODE_ERROR>>
    /\ pc' = route_after_validation(<<NO_CODE_ERROR>>, retry_from_scratch)
    /\ UNCHANGED <<messages, field_list, field_values_dict, generated_code, retry_count,
                   tool_iteration_count, retry_from_scratch, store, nonjson_run>>

\* lines 172-176: the record is written to the store and interrupt() suspends
ValidateSuspends(parsed, missed) ==
    /\ store' = SuspendRecord(missed)
    /\ field_values_dict' = IF parsed.kind = "dict" /\ field_values_dict # None
                                THEN field_value_map(parsed, field_values_dict)
                            ELSE field_values_dict
    /\ pc' = "suspended"
    /\ UNCHANGED <<messages, field_list, generated_code, validation_errors, retry_count,
                   tool_iteration_count, retry_from_scratch, nonjson_run>>

\* lines 182-184
ValidateAccepts(merged) ==
    /\ field_values_dict' = merged
    /\ pc' = route_after_validation(validation_errors, retry_from_scratch)
    /\ UNCHANGED <<messages, field_list, generated_code, validation_errors, retry_count,
                   tool_iteration_count, retry_from_scratch, store, nonjson_run>>

_validate_node ==
    /\ pc = "validate"
    /\ IF generated_code = NoCode THEN ValidateNoCode
       ELSE LET loaded == json_loads(_clean_code(generated_code))
                parsed == loaded.value
                merged == field_value_map(parsed, field_values_dict)
                missed == missed_required_field_list(field_list, merged)
            IN  IF ~loaded.ok THEN NodeRaises
                ELSE IF UpdateRaises(parsed, field_values_dict) THEN NodeRaises
                ELSE IF ScanRaises(field_list, merged) THEN NodeRaises
                ELSE IF missed # <<>> THEN ValidateSuspends(parsed, missed)
                ELSE ValidateAccepts(merged)
    /\ model_call' = "none"
    /\ UNCHANGED tool_vars
    /\ UNCHANGED <<call, orch_vars>>

\* resume(query): the suspended validate node runs again from its first line,
\* interrupt() now returns the user's answer (lines 177-181)
ResumeRuns ==
    /\ pc = "suspended"
    /\ LET parsed == json_loads(_clean_code(generated_code)).value
           merged == field_value_map(parsed, field_values_dict)
           missed == missed_required_field_list(field_list, merged)
       IN  /\ store' = SuspendRecord(missed)
           /\ retry_from_scratch' = TRUE
           /\ messages' = <<HumanMessage("answer")>>
           /\ field_values_dict' = merged
           /\ validation_errors' = <<NO_CODE_ERROR>>
           /\ pc' = route_after_validation(<<NO_CODE_ERROR>>, TRUE)
    /\ call' = "resume"
    /\ model_call' = "none"
    /\ UNCHANGED tool_vars
    /\ UNCHANGED <<field_list, generated_code, retry_count, tool_iteration_count,
                   nonjson_run>>

\* resume(query) called on the ItemCreationGraph itself
resume == ResumeRuns /\ UNCHANGED orch_vars

----------------------------------------------------------------------------
(* retry and create                                                        *)

\* feedback appended on the exhausting visit too
retry_messages_unbounded_feedback(msgs, errors, count, flag, tool_count) ==
    IF errors # <<>> THEN Append(msgs, HumanMessage("feedback"))
    ELSE IF flag THEN msgs
    ELSE IF tool_count > max_tool_iterations /\ count <= max_retries THEN <<msgs[2]>>
    ELSE msgs

\* the transcript cut to its first entry
retry_messages_keeps_head(msgs, errors, count, flag, tool_count) ==
    IF errors # <<>> /\ count <= max_retries THEN Append(msgs, HumanMessage("feedback"))
    ELSE IF flag THEN msgs
    ELSE IF tool_count > max_tool_iterations /\ count <= max_retries THEN <<msgs[1]>>
    ELSE msgs

\* lines 199-205: the transcript RETRY hands on
retry_messages(msgs, errors, count, flag, tool_count) ==
    IF errors # <<>> /\ count <= max_retries THEN Append(msgs, HumanMessage("feedback"))
    ELSE IF flag THEN msgs
    ELSE IF tool_count > max_tool_iterations /\ count <= max_retries THEN <<msgs[2]>>
    ELSE msgs

\* the payload left in place
_retry_node_keeps_payload ==
    /\ pc = "retry"
    /\ LET count == retry_count + 1
       IN  /\ retry_count' = count
           /\ messages' = retry_messages(messages, validation_errors, count,
                                         retry_from_scratch, tool_iteration_count)
           /\ retry_from_scratch' =
                  IF validation_errors # <<>> /\ count <= max_retries
                      THEN retry_from_scratch
                  ELSE FALSE
           /\ pc' = route_after_retry(count)
    /\ validation_errors' = <<>>
    /\ model_call' = "none"
    /\ UNCHANGED tool_vars
    /\ UNCHANGED <<field_list, field_values_dict, generated_code, tool_iteration_count,
                   store, nonjson_run, call, orch_vars>>

\* the truncation starting the tool count again
_retry_node_resets_tool_count ==
    /\ pc = "retry"
    /\ LET count == retry_count + 1
       IN  /\ retry_count' = count
           /\ messages' = retry_messages(messages, validation_errors, count,
                                         retry_from_scratch, tool_iteration_count)
           /\ retry_from_scratch' =
                  IF validation_errors # <<>> /\ count <= max_retries
                      THEN retry_from_scratch
                  ELSE FALSE
           /\ tool_iteration_count' =
                  IF /\ validation_errors = <<>>
                     /\ ~retry_from_scratch
                     /\ tool_iteration_count > max_tool_iterations
                     /\ count <= max_retries
                      THEN 0
                  ELSE tool_iteration_count
           /\ pc' = route_after_retry(count)
    /\ validation_errors' = <<>>
    /\ generated_code' = NoCode
    /\ model_call' = "none"
    /\ UNCHANGED tool_vars
    /\ UNCHANGED <<field_list, field_values_dict, store, nonjson_run, call, orch_vars>>

_retry_node ==
    /\ pc = "retry"
    /\ LET count == retry_count + 1
       IN  /\ retry_count' = count
           /\ messages' = retry_messages(messages, validation_errors, count,
                                         retry_from_scratch, tool_iteration_count)
           /\ retry_from_scratch' =
                  IF validation_errors # <<>> /\ count <= max_retries
                      THEN retry_from_scratch
                  ELSE FALSE
           /\ pc' = route_after_retry(count)
    /\ validation_errors' = <<>>
    /\ generated_code' = NoCode
    /\ model_call' = "none"
    /\ UNCHANGED tool_vars
    /\ UNCHANGED <<field_list, field_values_dict, tool_iteration_count, store,
                   nonjson_run, call, orch_vars>>

\* the suspend record discarded when the item is created
_creation_node_discards_record ==
    /\ pc = "create"
    /\ pc' = "__end__"
    /\ store' = NoRecord
    /\ model_call' = "none"
    /\ UNCHANGED tool_vars
    /\ UNCHANGED <<messages, field_list, field_values_dict, generated_code,
                   validation_errors, retry_count, tool_iteration_count,
                   retry_from_scratch, nonjson_run, call, orch_vars>>

_creation_node ==
    /\ pc = "create"
    /\ pc' = "__end__"
    /\ model_call' = "none"
    /\ UNCHANGED tool_vars
    /\ UNCHANGED <<messages, field_list, field_values_dict, generated_code,
                   validation_errors, retry_count, tool_iteration_count,
                   retry_from_scratch, store, nonjson_run, call, orch_vars>>

Next ==
    \/ _prepare_context_node
    \/ _generate_node
    \/ tools_node
    \/ _validate_node
    \/ resume
    \/ _retry_node
    \/ _creation_node

Spec == Init /\ [][Next]_vars

----------------------------------------------------------------------------
(* What execute hands to its caller                                        *)

ITEM_CREATED == "item successfully created"

FILTER_GENERATION_FAILED == "Filter generation failed"

\* execute, lines 378-386: whenever compiled_graph.invoke returns (the run
\* reached END, or interrupt() suspended it) the success text is returned; an
\* exception out of a node is raised again as ValueError
execute_result ==
    IF pc = "failed" THEN FILTER_GENERATION_FAILED
    ELSE IF pc \in {"__end__", "suspended"} THEN ITEM_CREATED
    ELSE "running"

----------------------------------------------------------------------------
(* Main Orchestrator and CRUD orchestrator                                 *)

\* keys of MainOrchestrator.subgraph_config
subgraph_config == {"item_creater_agent", "item_updator_agent"}

\* every MainOrchestrator runs under this thread id, whatever the
\* conversation: the machine's variables are the state kept under it
thread_id == 48

Conversations == {"A", "B"}

MaxRequests == 2

MessageType == {"answer", "continuation", "new_conversation"}

Str(s) == [class |-> "str", value |-> s]

\* what FlowResumeAgent.execute returns: the structured output object
ClassificationResult(t) == [class |-> "ClassificationResult", value |-> t]

Stopped == {"idle", "__end__", "suspended", "failed"}

\* execute, lines 360-377: a new ItemCreationGraph starts an attempt on the
\* thread from initial_state, with the store it was passed
ExecuteStarts ==
    /\ pc' = "prepare_context"
    /\ messages' = <<HumanMessage("query")>>
    /\ field_values_dict' = None
    /\ generated_code' = NoCode
    /\ validation_errors' = <<>>
    /\ retry_count' = 0
    /\ tool_iteration_count' = 0
    /\ retry_from_scratch' = FALSE
    /\ nonjson_run' = 0
    /\ call' = "execute"
    /\ model_call' = "none"
    /\ UNCHANGED tool_vars
    /\ UNCHANGED <<field_list, store>>

MachineUnchanged ==
    UNCHANGED <<pc, messages, field_list, field_values_dict, generated_code,
                validation_errors, retry_count, tool_iteration_count,
                retry_from_scratch, store, nonjson_run, call, model_call, tool_vars>>

MainInit ==
    /\ pc = "idle"
    /\ messages = <<>>
    /\ field_list \in Catalogs
    /\ field_values_dict = None
    /\ generated_code = NoCode
    /\ validation_errors = <<>>
    /\ retry_count = 0
    /\ tool_iteration_count = 0
    /\ retry_from_scratch = FALSE
    /\ store = NoRecord
    /\ nonjson_run = 0
    /\ call = "execute"
    /\ model_call = "none"
    /\ orch = "collect_interruoted_message"
    /\ requests = 1
    /\ conv = "A"
    /\ owner = "none"
    /\ self_interrupted_message = <<>>
    /\ self_subgraph_id = "none"
    /\ classification = "none"
    /\ field_ids = <<>>
    /\ results = <<>>

\* MainOrchestrator(query).execute() once the request before it is over
NewRequest ==
    /\ orch \in {"__end__", "failed"}
    /\ pc \in Stopped
    /\ requests < MaxRequests
    /\ requests' = requests + 1
    /\ conv' \in Conversations
    /\ self_interrupted_message' = <<>>
    /\ self_subgraph_id' = "none"
    /\ classification' = "none"
    /\ orch' = "collect_interruoted_message"
    /\ MachineUnchanged
    /\ UNCHANGED owner

_collect_interrupted_message ==
    /\ orch = "collect_interruoted_message"
    /\ IF store.present
           THEN /\ self_interrupted_message' = store.interrupted_message
                /\ self_subgraph_id' = store.subgraph_id
       ELSE UNCHANGED <<self_interrupted_message, self_subgraph_id>>
    /\ orch' = "flow_resume"
    /\ MachineUnchanged
    /\ UNCHANGED <<requests, conv, owner, classification>>

\* the classifier returned message_type t
FlowResumeClassifies(t) ==
    LET result == ClassificationResult(t)
    IN  /\ classification' = t
        /\ IF result = Str("answer")
               THEN /\ self_subgraph_id = "item_creater_agent"
                    /\ ResumeRuns
                    /\ orch' = "__end__"
           ELSE /\ orch' = "flow_picker"
                /\ MachineUnchanged

\* the classifier's model call raised
FlowResumeRaises ==
    /\ orch' = "failed"
    /\ MachineUnchanged
    /\ UNCHANGED classification

\* the classifier asked whether or not a record was loaded
_flow_resume_node_always_classifies ==
    /\ orch = "flow_resume"
    /\ \/ \E t \in MessageType : FlowResumeClassifies(t)
       \/ FlowResumeRaises
    /\ UNCHANGED <<requests, conv, owner, self_interrupted_message, self_subgraph_id>>

_flow_resume_node ==
    /\ orch = "flow_resume"
    /\ IF self_interrupted_message # <<>>
           THEN \/ \E t \in MessageType : FlowResumeClassifies(t)
                \/ FlowResumeRaises
       ELSE /\ orch' = "flow_picker"
            /\ MachineUnchanged
            /\ UNCHANGED classification
    /\ UNCHANGED <<requests, conv, owner, self_interrupted_message, self_subgraph_id>>

_flow_picker_node ==
    /\ orch = "flow_picker"
    /\ orch' = "item_crud_orchestrator"
    /\ MachineUnchanged
    /\ UNCHANGED <<requests, conv, owner, self_interrupted_message, self_subgraph_id,
                   classification>>

\* ItemCrudOrchestrator(...).execute(query, store): its graph starts at
\* speaker_selector
_item_crud_orchestrator ==
    /\ orch = "item_crud_orchestrator"
    /\ orch' = "speaker_selector"
    /\ MachineUnchanged
    /\ UNCHANGED <<requests, conv, owner, self_interrupted_message, self_subgraph_id,
                   classification>>

\* speaker_selector: the structured output names the next node, or the model
\* call raises
_orchestrator_node ==
    /\ orch = "speaker_selector"
    /\ orch' \in {"item_creater", "item_updater", "failed"}
    /\ MachineUnchanged
    /\ UNCHANGED <<requests, conv, owner, self_interrupted_message, self_subgraph_id,
                   classification>>

\* item_creater: ItemCreationGraph(flow_id, memory, thread_id).execute(...)
_item_creator ==
    /\ orch = "item_creater"
    /\ ExecuteStarts
    /\ owner' = conv
    /\ orch' = "item_creation_agent"
    /\ UNCHANGED <<requests, conv, self_interrupted_message, self_subgraph_id,
                   classification>>

\* a failed specialist sent back to the classification
ItemCreatorReturnsReclassifies ==
    /\ orch = "item_creation_agent"
    /\ pc \in Stopped
    /\ orch' = IF execute_result = FILTER_GENERATION_FAILED
                   THEN "speaker_selector" ELSE "__end__"
    /\ MachineUnchanged
    /\ UNCHANGED <<requests, conv, owner, self_interrupted_message, self_subgraph_id,
                   classification>>

\* execute is back in item_creater; the CRUD graph and then the main graph
\* go to END, or the ValueError goes up to the caller of the request
ItemCreatorReturns ==
    /\ orch = "item_creation_agent"
    /\ pc \in Stopped
    /\ orch' = IF execute_result = FILTER_GENERATION_FAILED THEN "failed" ELSE "__end__"
    /\ MachineUnchanged
    /\ UNCHANGED <<requests, conv, owner, self_interrupted_message, self_subgraph_id,
                   classification>>

\* item_updater: the update specialist runs under its own graph and returns
\* its response or raises
_item_updator ==
    /\ orch = "item_updater"
    /\ orch' \in {"__end__", "failed"}
    /\ MachineUnchanged
    /\ UNCHANGED <<requests, conv, owner, self_interrupted_message, self_subgraph_id,
                   classification>>

MainNext ==
    \/ NewRequest
    \/ _collect_interrupted_message
    \/ _flow_resume_node
    \/ _flow_picker_node
    \/ _item_crud_orchestrator
    \/ _orchestrator_node
    \/ _item_creator
    \/ ItemCreatorReturns
    \/ _item_updator
    \/ _prepare_context_node
    \/ _generate_node
    \/ tools_node
    \/ _validate_node
    \/ _retry_node
    \/ _creation_node

MainSpec == MainInit /\ [][MainNext]_vars

----------------------------------------------------------------------------
(* The field detail lookup tool                                            *)

MaxFieldIds == 3

\* the ids a call can ask for: those of the catalog and one it does not have
AskedIds == FieldIds \cup {"Unknown_Field"}

FieldIdLists == UNION {[1..n -> AskedIds] : n \in 1..MaxFieldIds}

\* lines 36-42 and 44-78: the error record when no catalog entry has the id,
\* else the entry with its metadata added
field_details(field_id, fields) ==
    IF \E i \in 1..Len(fields) : fields[i].Id = field_id
        THEN [error |-> FALSE, Id |-> field_id]
    ELSE [error |-> TRUE, Id |-> field_id]

\* the loop left at the first id that is not in the catalog
get_field_details_until_unknown(ids, fields) ==
    LET known == {n \in 0..Len(ids) :
                     \A i \in 1..n : ~field_details(ids[i], fields).error}
        last == CHOOSE n \in known : \A m \in known : m <= n
        found == [i \in 1..last |-> field_details(ids[i], fields)]
    IN  IF found = <<>> THEN <<[error |-> TRUE, Id |-> "No field processed"]>> ELSE found

\* one record per id, in the order asked; lines 85-86 for the empty list
get_field_details(ids, fields) ==
    LET found == [i \in 1..Len(ids) |-> field_details(ids[i], fields)]
    IN  IF found = <<>> THEN <<[error |-> TRUE, Id |-> "No field processed"]>> ELSE found

\* the tools node is running the calls of a tool-requesting response
ToolInit ==
    /\ pc = "tools"
    /\ messages = <<SystemMessage, HumanMessage("query"), AIMessage(TRUE)>>
    /\ field_list \in Catalogs
    /\ field_values_dict = None
    /\ generated_code = NoCode
    /\ validation_errors = <<>>
    /\ retry_count = 0
    /\ tool_iteration_count = 1
    /\ retry_from_scratch = FALSE
    /\ store = NoRecord
    /\ nonjson_run = -1
    /\ call = "execute"
    /\ model_call = "none"
    /\ orch = "direct"
    /\ requests = 0
    /\ conv = "none"
    /\ owner = "none"
    /\ self_interrupted_message = <<>>
    /\ self_subgraph_id = "none"
    /\ classification = "none"
    /\ field_ids = <<>>
    /\ results = <<>>

\* one get_field_details call of the tools node
get_field_details_call ==
    /\ pc = "tools"
    /\ \E ids \in FieldIdLists :
           /\ field_ids' = ids
           /\ results' = get_field_details(ids, field_list)
    /\ UNCHANGED <<pc, messages, field_list, field_values_dict, generated_code,
                   validation_errors, retry_count, tool_iteration_count,
                   retry_from_scratch, store, nonjson_run, call, model_call, orch_vars>>

ToolNext == get_field_details_call

ToolSpec == ToolInit /\ [][ToolNext]_vars

----------------------------------------------------------------------------
(* Properties                                                              *)

RequiredIds == {field_list[i].Id : i \in {j \in 1..Len(field_list) : field_list[j].Required}}

Range(seq) == {seq[i] : i \in 1..Len(seq)}

\* what the payload handed to validate parses to
Loaded == json_loads(_clean_code(generated_code))

\* field ids a stored value holds, as keys or as items
StoredIds(v) == Keys(v) \cup v.items

Terminal == {"__end__", "failed"}

\* C1: whenever the machine is at CREATE, every required field id is a key of
\* pending_values.
C1_CreateHasRequiredKeys ==
    pc = "create" => RequiredIds \subseteq Keys(field_values_dict)

C3_RetryCountStep ==
    [][/\ pc = "retry" =>
            /\ retry_count' = retry_count + 1
            /\ pc' = IF retry_count' > max_retries THEN "__end__" ELSE "prepare_context"
       /\ pc # "retry" => retry_count' = retry_count]_vars

C3_Witness ==
    /\ pc = "__end__"
    /\ retry_count = max_retries + 1
    /\ generated_code = NoCode

\* C4: retry_count is at most max_retries + 1 in every reachable state.
C4_RetryCountBounded == retry_count <= max_retries + 1

C4_Witness == retry_count = max_retries + 1 /\ pc = "__end__" /\ store.present

\* C5: once max_tool_iterations tool-requesting responses have been counted,
\* the next GENERATE visit never goes to TOOLS, and goes to RETRY when its
\* response requests tool calls again.
C5_ToolCapRoutesToRetry ==
    [][(pc = "generate" /\ tool_iteration_count >= max_tool_iterations)
       => (/\ pc' # "tools"
           /\ tool_iteration_count' > tool_iteration_count => pc' = "retry")]_vars

\* the first response over the cap: max_tool_iterations tool rounds ran, the
\* next tool-requesting response is the last message and RETRY is next
C5_Witness ==
    /\ pc = "retry"
    /\ tool_iteration_count = max_tool_iterations + 1
    /\ messages[Len(messages)].tool_calls
    /\ Cardinality({i \in 1..Len(messages) : messages[i].type = "tool"})
           = max_tool_iterations

\* C6: the step that first takes tool_iteration_count above
\* max_tool_iterations is a GENERATE visit whose routing goes to RETRY; in
\* every state before it the count is at most max_tool_iterations.
C6_CountExceedsOnlyAtForcedRetry ==
    [][(tool_iteration_count <= max_tool_iterations
            /\ tool_iteration_count' > max_tool_iterations)
       => (pc = "generate" /\ pc' = "retry")]_vars

C6_Witness ==
    /\ tool_iteration_count > max_tool_iterations
    /\ pc = "prepare_context"

\* C7: no step removes a field id from pending_values.
C7_PendingValuesOnlyGrows ==
    [][StoredIds(field_values_dict) \subseteq StoredIds(field_values_dict')]_vars

\* C8: a payload that does not parse gives a validation error and the machine
\* goes on to RETRY.
C8_ParseFailureGoesToRetry ==
    [][(pc = "validate" /\ generated_code # NoCode /\ ~Loaded.ok)
       => (pc' = "retry" /\ validation_errors' # <<>>)]_vars

\* C9: a run in which the model returns only non-JSON text ends at END after
\* three such responses, with retry_count = 4.
C9_Scenario2 ==
    (pc \in Terminal /\ nonjson_run >= 1)
        => (pc = "__end__" /\ nonjson_run = 3 /\ retry_count = 4)

\* C10: required fields Summary and Start_Date, a suspend listed Start_Date
\* and was resumed; when validate then parses a payload supplying Start_Date,
\* pending_values holds both ids and the visit goes to CREATE.
C10_Scenario1 ==
    [][(/\ pc = "validate"
        /\ RequiredIds = {"Summary", "Start_Date"}
        /\ store.interrupted_message = <<"Start_Date">>
        /\ field_values_dict.kind = "dict"
        /\ "Summary" \in Keys(field_values_dict)
        /\ Loaded.ok
        /\ Loaded.value.kind = "dict"
        /\ "Start_Date" \in Keys(Loaded.value))
       => (/\ Keys(field_values_dict') = {"Summary", "Start_Date"}
           /\ pc' = "create")]_vars

\* C11: when an attempt started by execute ends at END because retry_count
\* exceeded max_retries, the caller of execute does not receive the success
\* result.
C11_ExhaustionReported ==
    (pc = "__end__" /\ retry_count > max_retries /\ call = "execute")
        => execute_result # ITEM_CREATED

\* C12: when the attempt suspends, the result handed to the caller is the
\* prompt listing the missing required fields, and so is not the success
\* result.
C12_SuspendReturnsPrompt ==
    (pc = "suspended" /\ call = "execute") => execute_result # ITEM_CREATED

\* C13: a GENERATE visit whose model call fails lets no exception out, sets
\* validation_errors to a list holding the one generation error, and leaves
\* the transcript, tool_iteration_count, retry_count and pending_values as
\* they were.
C13_GenerationFailureFrame ==
    [][(pc = "generate" /\ model_call' = "raised")
       => (/\ pc' # "failed"
           /\ validation_errors' = <<GENERATION_ERROR>>
           /\ UNCHANGED <<messages, tool_iteration_count, retry_count,
                          field_values_dict>>)]_vars

\* the call failed after a tool round, a retry and a resumed suspension: all
\* four of the values to be left alone have moved from their initial values
C13_Witness ==
    /\ model_call = "raised"
    /\ validation_errors = <<GENERATION_ERROR>>
    /\ tool_iteration_count >= 1
    /\ retry_count >= 1
    /\ field_values_dict # None
    /\ Len(messages) >= 3

\* C14: after a GENERATE visit whose model call failed, the next node is RETRY.
C14_FailureGoesToRetry == model_call = "raised" => pc = "retry"

\* C15: a VALIDATE visit that accepts its payload leaves validation_errors
\* empty (validation_errors is non-empty only after a rejection).
C15_ErrorsEmptyAfterAccept ==
    [][(/\ pc = "validate"
        /\ generated_code # NoCode
        /\ Loaded.ok
        /\ pc' \in {"create", "retry"})
       => validation_errors' = <<>>]_vars

\* C16: PREPARE_CONTEXT is idempotent: on a transcript headed by a system
\* message the visit changes nothing, and applied to its own result it
\* returns that result.
C16_PrepareContextIdempotent ==
    [][pc = "prepare_context"
       => (/\ prepare_context(messages') = messages'
           /\ (messages # <<>> /\ messages[1].type = "system")
                  => UNCHANGED <<messages, field_list, field_values_dict,
                                 generated_code, validation_errors, retry_count,
                                 tool_iteration_count, retry_from_scratch, store>>)]_vars

\* PREPARE_CONTEXT was just visited for the second time or later, on a
\* transcript that already had its system message and ends with the feedback
C16_Witness ==
    /\ pc = "generate"
    /\ model_call = "none"
    /\ retry_count >= 1
    /\ messages[1].type = "system"
    /\ messages[Len(messages)] = HumanMessage("feedback")

\* the texts a payload is wrapped into
Wrappings(p) ==
    {<<Fence, Python, Ws>> \o p \o <<Ws, Fence>>, <<Fence, Ws>> \o p \o <<Ws, Fence>>}

\* what VALIDATE makes of a payload in the current state: whether it parses,
\* the parsed value, the merged pending_values and the missing required ids
ValidateOutcome(code) ==
    LET loaded == json_loads(_clean_code(code))
        merged == field_value_map(loaded.value, field_values_dict)
    IN  [ok |-> loaded.ok,
         parsed |-> loaded.value,
         merged |-> merged,
         missed |-> missed_required_field_list(field_list, merged)]

\* C17: VALIDATE on a payload wrapped in a python fence or a bare fence has
\* the outcome of VALIDATE on the payload itself.
C17_FenceRoundTrip ==
    \A b \in Bodies :
        (pc = "validate" /\ generated_code \in Wrappings(<<Text(b)>>))
            => ValidateOutcome(generated_code) = ValidateOutcome(<<Text(b)>>)

\* a fenced mapping was accepted and the machine is at CREATE
C17_Witness ==
    /\ pc = "create"
    /\ generated_code = <<Fence, Python, Ws, Text(PyDict([f \in FieldIds |-> "v1"])), Ws, Fence>>
    /\ RequiredIds = FieldIds
    /\ Keys(field_values_dict) = FieldIds

\* C18: with a suspend record pending and the classifier answering ANSWER,
\* the flow_resume visit resumes the remembered specialist and the request
\* ends without the flow picker or the CRUD orchestrator.
C18_AnswerResumes ==
    [][(/\ orch = "flow_resume"
        /\ self_interrupted_message # <<>>
        /\ classification' = "answer")
       => (/\ call' = "resume"
           /\ pc' # "suspended"
           /\ orch' = "__end__")]_vars

\* C19: after a fall-through (classification CONTINUATION or NEW_CONVERSATION)
\* the suspended thread stays suspended with the state and the suspend record
\* it had, while the request goes on.
C19_FallThroughKeepsSuspension ==
    [][(classification \in {"continuation", "new_conversation"} /\ pc = "suspended")
       => (/\ pc' = "suspended"
           /\ UNCHANGED <<messages, field_values_dict, generated_code,
                          validation_errors, retry_count, tool_iteration_count,
                          store>>)]_vars

C21_SuspendOnlyInValidate ==
    [][(pc' = "suspended" /\ pc # "suspended")
       => (/\ pc = "validate"
           /\ orch' = orch
           /\ Loaded.ok
           /\ RequiredIds
                  \ StoredIds(field_value_map(Loaded.value, field_values_dict)) # {})]_vars

\* in the second request to the Main Orchestrator the creation machine has
\* suspended with a prompt for Start_Date
C21_Witness ==
    /\ pc = "suspended"
    /\ orch = "item_creation_agent"
    /\ requests = 2
    /\ store.interrupted_message = <<"Start_Date">>

\* C22: in a request the CRUD orchestrator classifies once, at
\* speaker_selector, then runs one specialist, once, and ends; a failed
\* classification ends the request as failed with no specialist run; nothing
\* of the request runs after that.
C22_CrudSingleShot ==
    [][/\ orch = "speaker_selector"
            => (orch' \in {"item_creater", "item_updater", "failed"} /\ pc' = pc)
       /\ orch' = "speaker_selector" => orch = "item_crud_orchestrator"
       /\ orch = "item_creater" => (orch' = "item_creation_agent" /\ pc' = "prepare_context")
       /\ orch = "item_creation_agent"
            => orch' \in {"item_creation_agent", "__end__", "failed"}
       /\ orch = "item_updater" => (orch' \in {"__end__", "failed"} /\ pc' = pc)
       /\ (pc \in Stopped /\ pc' \notin Stopped) => orch = "item_creater"
       /\ orch \in {"__end__", "failed"}
            => (requests' = requests + 1 /\ pc' = pc)
       /\ requests' # requests => orch \in {"__end__", "failed"}]_vars

\* the request's one specialist, the creator, ran to CREATE and the request
\* ended
C22_Witness ==
    /\ orch = "__end__"
    /\ requests = 1
    /\ pc = "__end__"
    /\ retry_count = 0
    /\ field_values_dict # None

CatalogIds == {field_list[i].Id : i \in 1..Len(field_list)}

\* C23: for a non-empty list of ids get_field_details returns one record per
\* id, in the order asked: the metadata record of the id when the catalog has
\* it, an error record when it has not.
C23_FieldDetailsPerId ==
    field_ids # <<>>
        => (/\ Len(results) = Len(field_ids)
            /\ \A i \in 1..Len(field_ids) :
                  /\ results[i].Id = field_ids[i]
                  /\ results[i].error <=> field_ids[i] \notin CatalogIds)

\* an unknown id before and after a known one
C23_Witness ==
    /\ field_ids = <<"Unknown_Field", "Summary", "Unknown_Field">>
    /\ Len(results) = 3
    /\ ~results[2].error
    /\ results[3].error

\* C24: after a GENERATE visit that got a response, the route is RETRY when
\* the response requests tool calls and tool_iteration_count exceeds
\* max_tool_iterations, TOOLS when it requests tool calls otherwise (text or
\* no text), else VALIDATE when the payload is non-empty, else RETRY.
C24_RouteAfterGenerate ==
    [][(pc = "generate" /\ model_call' = "returned")
       => LET response == messages'[Len(messages')]
          IN  pc' = IF response.tool_calls
                        THEN IF tool_iteration_count' > max_tool_iterations
                                 THEN "retry" ELSE "tools"
                    ELSE IF generated_code' # NoCode THEN "validate"
                    ELSE "retry"]_vars

\* a response with tool calls and text went to TOOLS
C24_Witness ==
    /\ pc = "tools"
    /\ model_call = "returned"
    /\ generated_code # NoCode
    /\ messages[Len(messages)].tool_calls

\* C25: every RETRY visit leaves validation_errors empty and the payload
\* cleared, and PREPARE_CONTEXT hands both on as they are, so GENERATE starts
\* a round with neither.
C25_RetryClears ==
    [][/\ pc = "retry" => (validation_errors' = <<>> /\ generated_code' = NoCode)
       /\ pc = "prepare_context"
            => (/\ pc' = "generate"
                /\ validation_errors' = <<>>
                /\ generated_code' = NoCode)]_vars

\* after a resumed suspension and two RETRY visits, a new round starts clean
C25_Witness ==
    /\ pc = "prepare_context"
    /\ retry_count = 2
    /\ store.present
    /\ validation_errors = <<>>
    /\ generated_code = NoCode

\* C26: a RETRY visit appends the one feedback message, keeping the earlier
\* entries in order, exactly when validation_errors is non-empty and the
\* incremented retry_count is at most max_retries; otherwise nothing is
\* appended, and on the exhausting visit the transcript is left as it is.
C26_FeedbackIff ==
    [][pc = "retry"
       => IF validation_errors # <<>> /\ retry_count + 1 <= max_retries
              THEN messages' = Append(messages, HumanMessage("feedback"))
          ELSE /\ Len(messages') <= Len(messages)
               /\ retry_count + 1 > max_retries => messages' = messages]_vars

\* the last visit that may give feedback has appended it
C26_Witness ==
    /\ pc = "prepare_context"
    /\ retry_count = max_retries
    /\ Len(messages) >= 4
    /\ messages[Len(messages)] = HumanMessage("feedback")
    /\ messages[Len(messages) - 1].type = "ai"

FirstNonSystem(msgs) ==
    msgs[CHOOSE i \in 1..Len(msgs) :
             /\ msgs[i].type # "system"
             /\ \A j \in 1..(i - 1) : msgs[j].type = "system"]

\* C27: a RETRY visit with no validation errors, the flag unset,
\* tool_iteration_count above max_tool_iterations and the incremented
\* retry_count at most max_retries cuts the transcript to its first
\* non-system entry, a user message (the original user message, or the
\* answer a resume restarted the transcript with), so that PREPARE_CONTEXT
\* hands GENERATE the system message and that entry only.
C27_Truncation ==
    [][(/\ pc = "retry"
        /\ validation_errors = <<>>
        /\ ~retry_from_scratch
        /\ tool_iteration_count > max_tool_iterations
        /\ retry_count + 1 <= max_retries)
       => (/\ messages' = <<FirstNonSystem(messages)>>
           /\ messages'[1].type = "human"
           /\ prepare_context(messages')
                  = <<SystemMessage, FirstNonSystem(messages)>>)]_vars

\* C27 as stated: the entry the truncation keeps is the original user message
C27_TruncationKeepsQuery ==
    [][(/\ pc = "retry"
        /\ validation_errors = <<>>
        /\ ~retry_from_scratch
        /\ tool_iteration_count > max_tool_iterations
        /\ retry_count + 1 <= max_retries)
       => messages' = <<HumanMessage("query")>>]_vars

\* the tool rounds have been cut away: the query alone is left
C27_Witness ==
    /\ pc = "prepare_context"
    /\ messages = <<HumanMessage("query")>>
    /\ retry_count >= 1
    /\ tool_iteration_count > max_tool_iterations

\* C28: a GENERATE visit that got a response appends that response to the
\* transcript and adds 1 to tool_iteration_count when it requests tool calls
\* and 0 when it does not; no other step changes tool_iteration_count.
C28_GenerateAppendsAndCounts ==
    [][/\ (pc = "generate" /\ model_call' = "returned")
            => (/\ Len(messages') = Len(messages) + 1
                /\ SubSeq(messages', 1, Len(messages)) = messages
                /\ messages'[Len(messages')].type = "ai"
                /\ tool_iteration_count'
                       = tool_iteration_count
                             + (IF messages'[Len(messages')].tool_calls THEN 1 ELSE 0))
       /\ pc # "generate" => tool_iteration_count' = tool_iteration_count]_vars

\* the third tool-requesting response has been appended and counted
C28_Witness ==
    /\ model_call = "returned"
    /\ pc = "tools"
    /\ tool_iteration_count = 3
    /\ Cardinality({i \in 1..Len(messages) : messages[i].tool_calls}) = 3

\* C29: the RETRY visit that follows a resume goes on to PREPARE_CONTEXT and
\* GENERATE, with the answer in the transcript as a user message.
C29_ResumeReentersGenerate ==
    [][(pc = "retry" /\ call = "resume" /\ messages = <<HumanMessage("answer")>>)
       => (/\ pc' = "prepare_context"
           /\ \E i \in 1..Len(messages') : messages'[i] = HumanMessage("answer"))]_vars

\* C30: whenever the machine is suspended the store holds the suspend record:
\* the prompt lists the required ids missing from the merged mapping and the
\* origin is 'item_creater_agent', a key of the Main Orchestrator's
\* specialist mapping.
C30_SuspendRecordWritten ==
    pc = "suspended"
        => (/\ store.present
            /\ store.interrupted_message # <<>>
            /\ Range(store.interrupted_message)
                   = RequiredIds
                         \ StoredIds(field_value_map(Loaded.value, field_values_dict))
            /\ store.subgraph_id = "item_creater_agent"
            /\ store.subgraph_id \in subgraph_config)

\* suspended after a retry with both required fields missing
C30_Witness ==
    /\ pc = "suspended"
    /\ retry_count >= 1
    /\ store.subgraph_id = "item_creater_agent"
    /\ store.interrupted_message = <<"Summary", "Start_Date">>

\* C31: a request that loads no suspend record passes flow_resume without a
\* classification and without a resume, with the machine untouched, and goes
\* on to flow_picker, then to the CRUD orchestrator, in that order; a resume
\* is made only by a request that loaded a record.
C31_NoRecordNoResume ==
    [][/\ (orch = "collect_interruoted_message" /\ ~store.present)
            => (orch' = "flow_resume" /\ self_interrupted_message' = <<>>)
       /\ (orch = "flow_resume" /\ self_interrupted_message = <<>>)
            => (/\ orch' = "flow_picker"
                /\ classification' = "none"
                /\ call' = call
                /\ pc' = pc
                /\ messages' = messages)
       /\ orch = "flow_picker" => (orch' = "item_crud_orchestrator" /\ pc' = pc)
       /\ orch = "item_crud_orchestrator" => (orch' = "speaker_selector" /\ pc' = pc)
       /\ orch' = "item_crud_orchestrator" => orch = "flow_picker"
       /\ orch' = "flow_picker" => orch = "flow_resume"
       /\ (call' = "resume" /\ call # "resume") => self_interrupted_message # <<>>]_vars

\* a second request that found no record has reached the CRUD orchestrator
\* unclassified
C31_Witness ==
    /\ orch = "speaker_selector"
    /\ requests = 2
    /\ ~store.present
    /\ self_interrupted_message = <<>>
    /\ classification = "none"

Min(a, b) == IF a <= b THEN a ELSE b

\* place of a node in one round, later nodes lower
Position ==
    CASE pc = "prepare_context" -> 7
      [] pc = "tools" -> 6
      [] pc = "generate" -> 5
      [] pc = "validate" -> 4
      [] pc = "suspended" -> 3
      [] pc = "retry" -> 2
      [] pc = "create" -> 1
      [] OTHER -> 0

\* a natural number that every step of an attempt lowers
Rank ==
    10 * (max_retries + 1 - Min(retry_count, max_retries + 1))
        + 2 * (max_tool_iterations + 1 - Min(tool_iteration_count, max_tool_iterations + 1))
        + Position

\* model calls the attempt can still make: one per TOOLS visit left and one
\* for the end of each round left
ModelCallsLeft ==
    (max_tool_iterations - Min(tool_iteration_count, max_tool_iterations))
        + (IF pc \in {"prepare_context", "generate", "tools"}
               THEN max_retries + 1 - retry_count
           ELSE IF pc \in {"validate", "suspended", "retry"} /\ retry_count < max_retries
               THEN max_retries - retry_count
           ELSE 0)

\* every step lowers Rank; no step raises ModelCallsLeft, a GENERATE visit
\* lowers it, and it starts at max_tool_iterations + max_retries + 1
AttemptProgress ==
    /\ Rank' < Rank
    /\ Rank' >= 0
    /\ ModelCallsLeft' <= ModelCallsLeft
    /\ ModelCallsLeft' >= 0
    /\ ModelCallsLeft <= max_tool_iterations + max_retries + 1
    /\ pc = "generate" => ModelCallsLeft' < ModelCallsLeft

C32_Bounded == [][AttemptProgress]_vars

\* C32: every step of an attempt lowers a natural-number rank, so the attempt
\* stops after finitely many steps, having called the model at most
\* max_tool_iterations + max_retries + 1 times, and it stops nowhere but at
\* CREATE's END, at END after exhaustion, or suspended at VALIDATE.
C32_Terminates ==
    [][/\ AttemptProgress
       /\ pc' \in {"prepare_context", "generate", "tools", "validate", "retry",
                   "create", "__end__", "suspended"}]_vars

\* C33: at every entry to GENERATE and to VALIDATE the retry-from-scratch
\* flag is false.
C33_FlagClearAtGenerateAndValidate ==
    pc \in {"generate", "validate"} => ~retry_from_scratch

\* C34: no step of an attempt lowers tool_iteration_count; every TOOLS visit
\* is entered from GENERATE with the count raised by one to at most
\* max_tool_iterations, so there are at most max_tool_iterations of them; and
\* once the count is above max_tool_iterations a response that requests tool
\* calls is routed to RETRY.
C34_ToolCountNeverReset ==
    [][/\ tool_iteration_count' >= tool_iteration_count
       /\ pc' = "tools"
            => (/\ pc = "generate"
                /\ tool_iteration_count' = tool_iteration_count + 1
                /\ tool_iteration_count' <= max_tool_iterations)
       /\ (/\ pc = "generate"
           /\ model_call' = "returned"
           /\ messages'[Len(messages')].tool_calls
           /\ tool_iteration_count > max_tool_iterations)
            => pc' = "retry"]_vars

\* a tool request made after the cap was passed and the transcript truncated
\* has gone to RETRY
C34_Witness ==
    /\ pc = "retry"
    /\ model_call = "returned"
    /\ messages[Len(messages)].tool_calls
    /\ tool_iteration_count = max_tool_iterations + 2
    /\ retry_count = 1

\* suspensions the attempt can still make
SuspensionsLeft ==
    IF retry_count > max_retries THEN 0
    ELSE IF pc \in {"suspended", "retry"} THEN max_retries - retry_count
    ELSE max_retries + 1 - retry_count

\* C35: a resume is a step from the suspended state to RETRY, which adds one
\* to retry_count; a suspension happens at VALIDATE with retry_count at most
\* max_retries and uses up one of the max_retries + 1 suspensions an attempt
\* has, which no step gives back; the RETRY visit made with retry_count equal
\* to max_retries goes to END.
C35_ResumeConsumesRetry ==
    [][/\ pc = "suspended" => (pc' = "retry" /\ retry_count' = retry_count)
       /\ pc = "retry" => retry_count' = retry_count + 1
       /\ (pc = "retry" /\ retry_count = max_retries) => pc' = "__end__"
       /\ SuspensionsLeft' <= SuspensionsLeft
       /\ SuspensionsLeft <= max_retries + 1
       /\ pc' = "suspended"
            => (/\ pc = "validate"
                /\ retry_count <= max_retries
                /\ SuspensionsLeft' = SuspensionsLeft - 1
                /\ SuspensionsLeft' >= 0)]_vars

\* the resume of a suspension made with retry_count = max_retries has ended
\* the attempt at END
C35_Witness ==
    /\ pc = "__end__"
    /\ call = "resume"
    /\ retry_count = max_retries + 1
    /\ messages = <<HumanMessage("answer")>>

\* C36: no step removes or empties the suspend record once it is in the
\* store, and a request that starts with a record in the store loads it.
C36_SuspendRecordKept ==
    [][/\ store.present
            => (/\ store'.present
                /\ store'.interrupted_message # <<>>
                /\ store'.subgraph_id = store.subgraph_id)
       /\ (orch = "collect_interruoted_message" /\ store.present)
            => self_interrupted_message' = store.interrupted_message]_vars

\* a second request found the first one's record, started a new attempt that
\* reached CREATE and END, and the record is still there
C36_Witness ==
    /\ requests = 2
    /\ orch = "__end__"
    /\ pc = "__end__"
    /\ retry_count = 0
    /\ store.present
    /\ self_interrupted_message = store.interrupted_message

\* C37: at every entry to GENERATE the transcript has exactly one system
\* message and it is the first entry.
C37_OneSystemMessageFirst ==
    pc = "generate"
        => (/\ messages # <<>>
            /\ messages[1] = SystemMessage
            /\ \A i \in 2..Len(messages) : messages[i].type # "system")

\* GENERATE entered after a resume and a truncation
C37_Witness ==
    /\ pc = "generate"
    /\ model_call = "none"
    /\ call = "resume"
    /\ tool_iteration_count > max_tool_iterations
    /\ messages = <<SystemMessage, HumanMessage("answer")>>

\* C38: pending_values is a mapping (or not yet set) in every state, and a
\* VALIDATE visit whose payload parses to something other than a mapping
\* records a validation error, leaves pending_values alone and goes to RETRY.
C38_PendingValuesIsMapping ==
    [][/\ field_values_dict'.kind \in {"none", "dict"}
       /\ (/\ pc = "validate"
           /\ generated_code # NoCode
           /\ Loaded.ok
           /\ Loaded.value.kind # "dict")
            => (/\ pc' = "retry"
                /\ validation_errors' # <<>>
                /\ field_values_dict' = field_values_dict)]_vars

\* C39: whenever GENERATE is about to call the model, every assistant message
\* of the transcript that requests tool calls is followed by a tool-result
\* message.
C39_ToolCallsAnswered ==
    pc = "generate"
        => \A i \in 1..Len(messages) :
              messages[i].tool_calls
                  => (i < Len(messages) /\ messages[i + 1].type = "tool")

====
